---- MODULE Spec2Model ----
(***************************************************************************)
(* Model of the Redshift query tool of src/tools/custom_tool_execute_query *)
(* .py: the validator _validate_query, the executor execute_query, the     *)
(* facade RedshiftQueryExecutorTool.execute and the @tool entry point      *)
(* execute(query, limit).                                                  *)
(*                                                                         *)
(* Text is modelled as sequences of one-character strings so that upper(), *)
(* strip(), rstrip(';'), startswith() and the substring test are computed  *)
(* as Python computes them.  The database driver (psycopg2) and the SQL    *)
(* tokenizer (sqlparse) are the environment: every call into them picks    *)
(* its outcome nondeterministically (success or one of the exception       *)
(* classes the handlers distinguish).  The tool object is taken as         *)
(* constructed (the state after __init__ with a complete configuration).   *)
(***************************************************************************)
EXTENDS Integers, Sequences, FiniteSets, TLC

\* ------------------------------------------------------------------ bounds
\* largest number of trailing ';' terminators in a generated statement
MaxTerm == 1
\* largest number of rows / of result columns the backend reports
MaxRows == 2
MaxCols == 2

\* ------------------------------------------------------- program constants
\* default row limit of the entry point and of the facade
DefaultLimit == 1000
\* timeout (seconds) hardcoded by the entry point, default of the facade
ToolTimeout == 30
\* seconds to milliseconds in the SET statement_timeout directive
MsPerSecond == 1000

\* -------------------------------------------------------------------- text
LowerChars == <<"a","b","c","d","e","f","g","h","i","j","k","l","m",
                "n","o","p","q","r","s","t","u","v","w","x","y","z">>
UpperChars == <<"A","B","C","D","E","F","G","H","I","J","K","L","M",
                "N","O","P","Q","R","S","T","U","V","W","X","Y","Z">>
DigitChars == <<"0","1","2","3","4","5","6","7","8","9">>

\* str.strip() with no argument strips these
Whitespace == {" ", "\n", "\t"}

UpperChar(c) ==
    IF \E i \in 1..Len(LowerChars) : LowerChars[i] = c
    THEN UpperChars[CHOOSE i \in 1..Len(LowerChars) : LowerChars[i] = c]
    ELSE c

\* str.upper()
Upper(s) == [i \in 1..Len(s) |-> UpperChar(s[i])]

SetMax(S) == CHOOSE x \in S : \A y \in S : y <= x
SetMin(S) == CHOOSE x \in S : \A y \in S : x <= y

\* str.strip()
Strip(s) ==
    LET keep == {i \in 1..Len(s) : s[i] \notin Whitespace}
    IN  IF keep = {} THEN <<>> ELSE SubSeq(s, SetMin(keep), SetMax(keep))

\* str.rstrip(chars): drops every trailing character that is in chars
RStrip(s, chars) ==
    LET keep == {i \in 1..Len(s) : s[i] \notin chars}
    IN  IF keep = {} THEN <<>> ELSE SubSeq(s, 1, SetMax(keep))

\* str.startswith(p)
StartsWith(s, p) == Len(s) >= Len(p) /\ SubSeq(s, 1, Len(p)) = p

\* p in s
Contains(s, p) ==
    \E i \in 1..(Len(s) - Len(p) + 1) : SubSeq(s, i, i + Len(p) - 1) = p

\* str(n) of a non-negative int, as the f-string formats it
RECURSIVE Decimal(_)
Decimal(n) ==
    IF n < 10 THEN <<DigitChars[n + 1]>>
    ELSE Decimal(n \div 10) \o <<DigitChars[(n % 10) + 1]>>

\* --------------------------------------------------------------- literals
kSELECT == <<"S","E","L","E","C","T">>
kLIMIT == <<"L","I","M","I","T">>
kDELETE == <<"D","E","L","E","T","E">>
kDROP == <<"D","R","O","P">>
kALTER == <<"A","L","T","E","R">>
kINSERT == <<"I","N","S","E","R","T">>
kDROP_DATABASE == <<"D","R","O","P"," ","D","A","T","A","B","A","S","E">>
kDROP_SCHEMA == <<"D","R","O","P"," ","S","C","H","E","M","A">>
kTRUNCATE == <<"T","R","U","N","C","A","T","E">>
kDELETE_FROM == <<"D","E","L","E","T","E"," ","F","R","O","M">>
kSpaceLimitSpace == <<" ">> \o kLIMIT \o <<" ">>

\* line 172
dangerous_keywords == {kDROP_DATABASE, kDROP_SCHEMA, kTRUNCATE, kDELETE_FROM}
\* line 174
exempt_types == {kDELETE, kDROP, kALTER}

\* ------------------------------------------------------------- validator
\* what sqlparse.parse can do with a text: an empty text yields no
\* statement; a text of whitespace only yields none or one, by version;
\* any other text yields statements, or the tokenizer raises
ParseOutcomes(query) ==
    IF query = <<>> THEN {"nothing"}
    ELSE IF Strip(query) = <<>> THEN {"nothing", "statements"}
    ELSE {"statements", "raise"}

\* a validator that forgets the deny-list
ValidateNoDenyList(query, query_type, parsed) ==
    /\ parsed = "statements"
    /\ ~(query_type = kSELECT /\ ~StartsWith(Strip(Upper(query)), kSELECT))

\* _validate_query(query, query_type); parsed is the tokenizer's outcome
_validate_query(query, query_type, parsed) ==
    IF parsed = "raise" THEN FALSE
    ELSE IF parsed = "nothing" THEN FALSE
    ELSE LET query_upper == Strip(Upper(query))
         IN  IF /\ \E keyword \in dangerous_keywords : Contains(query_upper, keyword)
                /\ query_type \notin exempt_types
             THEN FALSE
             ELSE IF query_type = kSELECT /\ ~StartsWith(query_upper, kSELECT)
             THEN FALSE
             ELSE TRUE

\* ---------------------------------------------------------- limit clause
\* an injection that keeps the terminator
InjectKeepTerminator(query, limit) ==
    IF StartsWith(Strip(Upper(query)), kSELECT) /\ ~Contains(Upper(query), kLIMIT)
    THEN query \o kSpaceLimitSpace \o Decimal(limit)
    ELSE query

\* lines 207-208: the text execute_query goes on to execute
InjectLimit(query, limit) ==
    IF StartsWith(Strip(Upper(query)), kSELECT) /\ ~Contains(Upper(query), kLIMIT)
    THEN RStrip(query, {";"}) \o kSpaceLimitSpace \o Decimal(limit)
    ELSE query

\* line 217: the branch execute_query takes after the statement ran
IsSelectShaped(query) == StartsWith(Strip(Upper(query)), kSELECT)

\* ------------------------------------------------------------------ inputs
kselect == <<"s","e","l","e","c","t">>
kUPDATE == <<"U","P","D","A","T","E">>

Leads == {<<>>, <<" ">>}
Heads ==
    { <<>>,
      kSELECT \o <<" ","1">>,
      kselect \o <<" ","a">>,
      kUPDATE \o <<" ","t">>,
      kDELETE_FROM \o <<" ","t">>,
      kTRUNCATE \o <<" ","t">>,
      kDROP_SCHEMA \o <<" ","s">>,
      kDROP_DATABASE \o <<" ","d">> }
Mids ==
    { <<>>,
      <<" ">> \o kLIMIT \o <<" ","2">>,
      <<" ","l","i","m","i","t"," ","2">>,
      <<";"," ","d","e","l","e","t","e"," ","f","r","o","m"," ","t">> }
Terminators == {[i \in 1..k |-> ";"] : k \in 0..MaxTerm}
Trails == {<<>>, <<"\n">>}

\* the statements a caller may pass
Queries ==
    {l \o h \o m \o t \o w :
        l \in Leads, h \in Heads, m \in Mids, t \in Terminators, w \in Trails}

\* declared types a caller may pass (the facade uppercases them)
Types == {kSELECT, kselect, kDELETE, kDROP, kINSERT}
Limits == {DefaultLimit, 5}
Timeouts == {ToolTimeout, 1}

\* a Python value that is a str, and one that is not
PyStr(s) == [str |-> s]
PyNone == [none |-> TRUE]
IsStr(v) == "str" \in DOMAIN v

\* the dictionaries a caller may pass to the facade: every key given, only
\* the query given, no query key, and a query that is not a string
ToolInputs ==
    {[query |-> PyStr(q), query_type |-> PyStr(t), limit |-> l, timeout |-> s] :
        q \in Queries, t \in Types, l \in Limits, s \in Timeouts}
    \cup {[query |-> PyStr(q)] : q \in Queries}
    \cup {[limit |-> l] : l \in Limits}
    \cup {[query |-> PyNone]}

\* dict.get(key, default)
Get(d, key, default) == IF key \in DOMAIN d THEN d[key] ELSE default

\* ------------------------------------------------------------------- state
VARIABLES
    pc,          \* position of the single thread of control
    entry,       \* the operation the caller invoked
    facade,      \* locals of RedshiftQueryExecutorTool.execute (in a direct
                 \* call of the validator: its arguments)
    arg,         \* arguments execute_query was called with
    query,       \* execute_query's local variable query (reassigned, line 208)
    connection,  \* "none" | "open" | "closed"
    cursor,      \* "none" | "open" | "closed"
    exc,         \* the exception in flight, or NoExc
    result,      \* the envelope execute_query is about to return, or NoResult
    description, \* cursor.description after the statement ran
    rowcount,    \* cursor.rowcount after the statement ran
    rows,        \* what cursor.fetchall() returned
    valid,       \* what _validate_query returned: "unset" | "True" | "False"
    retval,      \* what the invoked operation gave back to its caller
    trace        \* history: the calls made into validator and driver, in order

vars == <<pc, entry, facade, arg, query, connection, cursor, exc, result,
          description, rowcount, rows, valid, retval, trace>>

NoExc == [cls |-> "none"]
NoResult == [pending |-> TRUE]
NoLocals == [unset |-> TRUE]
NoDescription == [has |-> FALSE, names |-> <<>>]
Pending == [tag |-> "pending"]

Event(op, ok, a) == [op |-> op, ok |-> ok, arg |-> a]

Init ==
    /\ pc = "idle"
    /\ entry = "none"
    /\ facade = NoLocals
    /\ arg = NoLocals
    /\ query = <<>>
    /\ connection = "none"
    /\ cursor = "none"
    /\ exc = NoExc
    /\ result = NoResult
    /\ description = NoDescription
    /\ rowcount = -1
    /\ rows = <<>>
    /\ valid = "unset"
    /\ retval = Pending
    /\ trace = <<>>

\* a caller may invoke an operation when no call is in progress
CanCall == pc = "idle"

\* the per-call state at the start of a call: nothing outlives a call
FreshCall(e) ==
    /\ entry' = e
    /\ connection' = "none"
    /\ cursor' = "none"
    /\ result' = NoResult
    /\ description' = NoDescription
    /\ rowcount' = -1
    /\ rows' = <<>>

\* ------------------------------------------------------------ exceptions
\* psycopg2.Error and its subclasses, with the vendor code when there is one
DbError(msg, code) == [cls |-> "psycopg2.Error", msg |-> msg, pgcode |-> code]
\* the ConnectionError _get_connection raises (lines 148-152)
ConnError(msg) == [cls |-> "ConnectionError", msg |-> msg, pgcode |-> "None"]
\* any other subclass of Exception
OtherError(msg) == [cls |-> "Exception", msg |-> msg, pgcode |-> "None"]

PgCodes == {"None", "57014"}

\* ------------------------------------------------------------- envelopes
MissingQuery ==
    [success |-> FALSE,
     error |-> <<"Query parameter is required and cannot be empty", "">>]
ValidationFailed ==
    [success |-> FALSE,
     error |-> <<"Query validation failed. Please check your SQL syntax and query type.", "">>]
ToolFailed(e) ==
    [success |-> FALSE, error |-> <<"Tool execution failed: ", e.msg>>]

\* lines 265-270
DatabaseErrorResult(e, q) ==
    [success |-> FALSE, error |-> <<"Database error: ", e.msg>>,
     error_code |-> e.pgcode, query |-> q]
\* lines 280-284
ExecutionErrorResult(e, q) ==
    [success |-> FALSE, error |-> <<"Execution error: ", e.msg>>, query |-> q]

\* pandas.DataFrame(rows, columns=columns).to_dict('records')
ToRecords(rs, columns) ==
    [i \in 1..Len(rs) |->
        [c \in {columns[j] : j \in 1..Len(columns)} |->
            rs[i][CHOOSE j \in 1..Len(columns) : columns[j] = c]]]

\* lines 223-242
ReadResult(rs, columns, q) ==
    IF Len(rs) > 0 /\ Len(columns) > 0
    THEN [success |-> TRUE, data |-> ToRecords(rs, columns), columns |-> columns,
          row_count |-> Len(rs), execution_time_seconds |-> "measured", query |-> q]
    ELSE [success |-> TRUE, data |-> <<>>, columns |-> <<>>,
          row_count |-> 0, execution_time_seconds |-> "measured", query |-> q]

\* lines 249-255
WriteResult(affected_rows, q) ==
    [success |-> TRUE,
     message |-> <<"Query executed successfully. Affected rows: ", affected_rows>>,
     affected_rows |-> affected_rows,
     execution_time_seconds |-> "measured", query |-> q]

\* ---------------------------------------------------------------- facade
\* the facade hands env back: to the entry point when that called it, else
\* to the caller
FacadeReturn(e, env) ==
    /\ result' = env
    /\ IF e = "tool"
       THEN pc' = "t_return" /\ retval' = Pending
       ELSE pc' = "returned" /\ retval' = [tag |-> "envelope", val |-> env]

\* lines 304-316: extract the parameters, require a non-empty query
FacadeEnter(tool_input, e) ==
    LET q == Get(tool_input, "query", PyStr(<<>>))
        t == Get(tool_input, "query_type", PyStr(kSELECT))
    IN  /\ entry' = e
        /\ connection' = "none"
        /\ cursor' = "none"
        /\ description' = NoDescription
        /\ rowcount' = -1
        /\ rows' = <<>>
        /\ valid' = "unset"
        /\ trace' = <<>>
        /\ arg' = NoLocals
        /\ query' = <<>>
        /\ IF ~IsStr(q) \/ ~IsStr(t)
           THEN \* .strip() / .upper() of a non-string raises inside the try
                /\ facade' = NoLocals
                /\ exc' = OtherError("AttributeError")
                /\ result' = NoResult
                /\ retval' = Pending
                /\ pc' = "f_except"
           ELSE /\ facade' = [query |-> Strip(q.str),
                             query_type |-> Upper(t.str),
                             limit |-> Get(tool_input, "limit", DefaultLimit),
                             timeout |-> Get(tool_input, "timeout", ToolTimeout)]
                /\ exc' = NoExc
                /\ IF Strip(q.str) = <<>>
                   THEN FacadeReturn(e, MissingQuery)
                   ELSE pc' = "f_validate" /\ result' = NoResult /\ retval' = Pending

\* RedshiftQueryExecutorTool.execute(tool_input), called directly
CallFacade ==
    /\ CanCall
    /\ \E tool_input \in ToolInputs : FacadeEnter(tool_input, "facade")

\* an entry point that declares INSERT instead of SELECT
ToolCallDeclaresInsert(q, lim) ==
    FacadeEnter([query |-> PyStr(q), query_type |-> PyStr(kINSERT),
                 limit |-> lim, timeout |-> ToolTimeout], "tool")

\* the pass-through the entry point makes (lines 346-353)
ToolCall(q, lim) ==
    FacadeEnter([query |-> PyStr(q), query_type |-> PyStr(kSELECT),
                 limit |-> lim, timeout |-> ToolTimeout], "tool")

\* the @tool entry point execute(query, limit)
CallTool ==
    /\ CanCall
    /\ \E q \in Queries, lim \in Limits : ToolCall(q, lim)

\* _validate_query(query, query_type), called directly
CallValidator ==
    /\ CanCall
    /\ \E q \in Queries, t \in Types, parsed \in {"nothing", "statements", "raise"} :
        /\ parsed \in ParseOutcomes(q)
        /\ FreshCall("validator")
        /\ facade' = [query |-> q, query_type |-> t, limit |-> DefaultLimit,
                      timeout |-> ToolTimeout]
        /\ valid' = IF _validate_query(q, t, parsed) THEN "True" ELSE "False"
        /\ trace' = <<Event("validate", TRUE, parsed)>>
        /\ retval' = [tag |-> "bool", val |-> _validate_query(q, t, parsed)]
        /\ pc' = "returned"
        /\ arg' = NoLocals
        /\ query' = <<>>
        /\ exc' = NoExc

\* a facade that goes on to the executor whatever the validator said
FacadeValidateUnguarded ==
    /\ pc = "f_validate"
    /\ \E parsed \in {"nothing", "statements", "raise"} :
        /\ parsed \in ParseOutcomes(facade.query)
        /\ valid' = IF _validate_query(facade.query, facade.query_type, parsed)
                    THEN "True" ELSE "False"
        /\ trace' = Append(trace, Event("validate", TRUE, parsed))
        /\ arg' = [query |-> facade.query, limit |-> facade.limit,
                   timeout |-> facade.timeout]
        /\ query' = facade.query
        /\ pc' = "x_connect"
    /\ UNCHANGED <<entry, facade, connection, cursor, exc, description, rowcount,
                   rows, result, retval>>

\* lines 318-326: validate, then hand over to execute_query
FacadeValidate ==
    /\ pc = "f_validate"
    /\ \E parsed \in {"nothing", "statements", "raise"} :
        /\ parsed \in ParseOutcomes(facade.query)
        /\ LET v == _validate_query(facade.query, facade.query_type, parsed)
           IN  /\ valid' = IF v THEN "True" ELSE "False"
               /\ trace' = Append(trace, Event("validate", TRUE, parsed))
               /\ IF v
                  THEN /\ arg' = [query |-> facade.query, limit |-> facade.limit,
                                  timeout |-> facade.timeout]
                       /\ query' = facade.query
                       /\ pc' = "x_connect"
                       /\ UNCHANGED <<result, retval>>
                  ELSE /\ FacadeReturn(entry, ValidationFailed)
                       /\ UNCHANGED <<arg, query>>
    /\ UNCHANGED <<entry, facade, connection, cursor, exc, description, rowcount, rows>>

\* a facade without its except clause: the exception reaches the caller
FacadeExceptReraises ==
    /\ pc = "f_except"
    /\ exc # NoExc
    /\ pc' = "returned"
    /\ retval' = [tag |-> "raised", val |-> exc]
    /\ UNCHANGED <<entry, facade, arg, query, connection, cursor, exc, result,
                   description, rowcount, rows, valid, trace>>

\* lines 330-335: any exception below the facade becomes an envelope
FacadeExcept ==
    /\ pc = "f_except"
    /\ exc # NoExc
    /\ FacadeReturn(entry, ToolFailed(exc))
    /\ exc' = NoExc
    /\ UNCHANGED <<entry, facade, arg, query, connection, cursor, description,
                   rowcount, rows, valid, trace>>

\* lines 355-359: the entry point hands back the rows, or None
ToolReturn ==
    /\ pc = "t_return"
    /\ retval' = IF result.success
                 THEN IF "data" \in DOMAIN result
                      THEN [tag |-> "value", val |-> result.data]
                      ELSE [tag |-> "envelope", val |-> result]
                 ELSE [tag |-> "None"]
    /\ pc' = "returned"
    /\ UNCHANGED <<entry, facade, arg, query, connection, cursor, exc, result,
                   description, rowcount, rows, valid, trace>>

\* -------------------------------------------------------------- executor
\* what a call into the driver can raise
Failures == {DbError("backend error", "None"), OtherError("unexpected error")}
\* what running the caller's statement can raise
StatementFailures == Failures \cup {DbError("backend error", "57014")}

ColumnList == <<"c1", "c2", "c3", "c4">>
Reverse(s) == [i \in 1..Len(s) |-> s[Len(s) + 1 - i]]
\* what cursor.description can be after the statement ran
Descriptions ==
    {NoDescription}
    \cup {[has |-> TRUE, names |-> SubSeq(ColumnList, 1, k)] : k \in 1..MaxCols}
    \cup {[has |-> TRUE, names |-> Reverse(SubSeq(ColumnList, 1, k))] : k \in 1..MaxCols}

\* n rows of width w
MakeRows(n, w) == [i \in 1..n |-> [j \in 1..w |-> i * 10 + j]]

\* lines 147-152: the message _get_connection gives the ConnectionError
ClassifyConnect(saysTimeout, saysAuthentication) ==
    IF saysTimeout
    THEN "Connection timeout - check network connectivity and Redshift cluster status"
    ELSE IF saysAuthentication
    THEN "Authentication failed - check username and password"
    ELSE "Database connection failed"

\* what psycopg2.connect can raise, as _get_connection passes it on
ConnectFailures ==
    {ConnError(ClassifyConnect(t, a)) : t \in BOOLEAN, a \in BOOLEAN}
    \cup Failures

\* execute_query(query, limit, timeout), called directly
CallExecutor ==
    /\ CanCall
    /\ \E q \in Queries, l \in Limits, t \in Timeouts :
        /\ FreshCall("executor")
        /\ facade' = NoLocals
        /\ arg' = [query |-> q, limit |-> l, timeout |-> t]
        /\ query' = q
        /\ result' = NoResult
        /\ exc' = NoExc
        /\ valid' = "unset"
        /\ retval' = Pending
        /\ trace' = <<>>
        /\ pc' = "x_connect"

\* line 200 and _get_connection (lines 137-155)
ExecConnect ==
    /\ pc = "x_connect"
    /\ \E e \in {NoExc} \cup ConnectFailures :
        /\ trace' = Append(trace, Event("connect", e = NoExc, <<>>))
        /\ IF e = NoExc
           THEN connection' = "open" /\ pc' = "x_cursor" /\ exc' = exc
           ELSE connection' = connection /\ pc' = "x_except" /\ exc' = e
    /\ UNCHANGED <<entry, facade, arg, query, cursor, result, description,
                   rowcount, rows, valid, retval>>

\* line 201
ExecCursor ==
    /\ pc = "x_cursor"
    /\ \E e \in {NoExc} \cup Failures :
        /\ trace' = Append(trace, Event("cursor", e = NoExc, <<>>))
        /\ IF e = NoExc
           THEN cursor' = "open" /\ pc' = "x_timeout" /\ exc' = exc
           ELSE cursor' = cursor /\ pc' = "x_except" /\ exc' = e
    /\ UNCHANGED <<entry, facade, arg, query, connection, result, description,
                   rowcount, rows, valid, retval>>

\* line 204: SET statement_timeout = timeout * 1000
ExecSetTimeout ==
    /\ pc = "x_timeout"
    /\ \E e \in {NoExc} \cup Failures :
        /\ trace' = Append(trace,
                           Event("set_timeout", e = NoExc, arg.timeout * MsPerSecond))
        /\ IF e = NoExc
           THEN pc' = "x_limit" /\ exc' = exc
           ELSE pc' = "x_except" /\ exc' = e
    /\ UNCHANGED <<entry, facade, arg, query, connection, cursor, result,
                   description, rowcount, rows, valid, retval>>

\* lines 207-209: the local variable query is reassigned
ExecInjectLimit ==
    /\ pc = "x_limit"
    /\ query' = InjectLimit(query, arg.limit)
    /\ pc' = "x_execute"
    /\ UNCHANGED <<entry, facade, arg, connection, cursor, exc, result,
                   description, rowcount, rows, valid, retval, trace>>

\* line 213, and the branch of line 217
ExecStatement ==
    /\ pc = "x_execute"
    /\ \E e \in {NoExc} \cup StatementFailures :
        /\ trace' = Append(trace, Event("execute", e = NoExc, query))
        /\ IF e = NoExc
           THEN /\ pc' = IF IsSelectShaped(query) THEN "x_fetch" ELSE "x_commit"
                /\ exc' = exc
           ELSE pc' = "x_except" /\ exc' = e
    /\ UNCHANGED <<entry, facade, arg, query, connection, cursor, result,
                   description, rowcount, rows, valid, retval>>

\* lines 219-243: read the description, fetch the rows, shape the result;
\* a cursor without a description has no rows to give
ExecFetch ==
    /\ pc = "x_fetch"
    /\ \E d \in Descriptions, n \in 0..MaxRows, e \in {NoExc} \cup Failures :
        /\ (~d.has) => n = 0
        /\ description' = d
        /\ trace' = Append(trace, Event("fetchall", e = NoExc, <<>>))
        /\ IF e = NoExc
           THEN /\ rows' = MakeRows(n, Len(d.names))
                /\ result' = ReadResult(MakeRows(n, Len(d.names)),
                                        IF d.has THEN d.names ELSE <<>>, query)
                /\ pc' = "x_close_cursor"
                /\ exc' = exc
           ELSE /\ n = 0
                /\ rows' = rows
                /\ result' = result
                /\ pc' = "x_except"
                /\ exc' = e
    /\ UNCHANGED <<entry, facade, arg, query, connection, cursor, rowcount,
                   valid, retval>>

\* lines 246-256: commit, then report cursor.rowcount
ExecCommit ==
    /\ pc = "x_commit"
    /\ \E n \in -1..MaxRows, e \in {NoExc} \cup Failures :
        /\ trace' = Append(trace, Event("commit", e = NoExc, <<>>))
        /\ IF e = NoExc
           THEN /\ rowcount' = n
                /\ result' = WriteResult(n, query)
                /\ pc' = "x_close_cursor"
                /\ exc' = exc
           ELSE /\ n = -1
                /\ rowcount' = rowcount
                /\ result' = result
                /\ pc' = "x_except"
                /\ exc' = e
    /\ UNCHANGED <<entry, facade, arg, query, connection, cursor, description,
                   rows, valid, retval>>

\* the envelope the two handlers build (lines 265-270, 280-284)
ErrorResult(e, q) ==
    IF e.cls = "psycopg2.Error" THEN DatabaseErrorResult(e, q)
    ELSE ExecutionErrorResult(e, q)

\* a handler outside the try/finally: a rollback() that raises skips the
\* release of the cursor and of the connection
ExecHandleSkipsFinally ==
    /\ pc = "x_except"
    /\ exc # NoExc
    /\ IF connection = "none"
       THEN /\ result' = ErrorResult(exc, query)
            /\ exc' = NoExc
            /\ trace' = trace
            /\ pc' = "x_close_cursor"
       ELSE \E e \in {NoExc, DbError("rollback failed", "None")} :
            /\ trace' = Append(trace, Event("rollback", e = NoExc, <<>>))
            /\ IF e = NoExc
               THEN result' = ErrorResult(exc, query) /\ exc' = NoExc
                    /\ pc' = "x_close_cursor"
               ELSE result' = NoResult /\ exc' = e /\ pc' = "x_exit"
    /\ UNCHANGED <<entry, facade, arg, query, connection, cursor, description,
                   rowcount, rows, valid, retval>>

\* lines 263-290: build the envelope, roll back when there is a connection;
\* an exception raised by rollback() leaves the handler
ExecHandle ==
    /\ pc = "x_except"
    /\ exc # NoExc
    /\ IF connection = "none"
       THEN /\ result' = ErrorResult(exc, query)
            /\ exc' = NoExc
            /\ trace' = trace
       ELSE \E e \in {NoExc, DbError("rollback failed", "None")} :
            /\ trace' = Append(trace, Event("rollback", e = NoExc, <<>>))
            /\ IF e = NoExc
               THEN result' = ErrorResult(exc, query) /\ exc' = NoExc
               ELSE result' = NoResult /\ exc' = e
    /\ pc' = "x_close_cursor"
    /\ UNCHANGED <<entry, facade, arg, query, connection, cursor, description,
                   rowcount, rows, valid, retval>>

\* lines 294-295: the finally block releases the cursor
ExecCloseCursor ==
    /\ pc = "x_close_cursor"
    /\ IF cursor = "none"
       THEN UNCHANGED <<cursor, trace>>
       ELSE /\ cursor' = "closed"
            /\ trace' = Append(trace, Event("cursor_close", TRUE, <<>>))
    /\ pc' = "x_close_conn"
    /\ UNCHANGED <<entry, facade, arg, query, connection, exc, result,
                   description, rowcount, rows, valid, retval>>

\* lines 296-297: the finally block closes the connection
ExecCloseConnection ==
    /\ pc = "x_close_conn"
    /\ IF connection = "none"
       THEN UNCHANGED <<connection, trace>>
       ELSE /\ connection' = "closed"
            /\ trace' = Append(trace, Event("conn_close", TRUE, <<>>))
    /\ pc' = "x_exit"
    /\ UNCHANGED <<entry, facade, arg, query, cursor, exc, result,
                   description, rowcount, rows, valid, retval>>

\* line 295 with a cursor.close() that raises: the exception replaces the
\* pending return or exception and leaves the finally block at once
CursorCloseRaises ==
    /\ pc = "x_close_cursor"
    /\ cursor = "open"
    /\ trace' = Append(trace, Event("cursor_close", FALSE, <<>>))
    /\ exc' = OtherError("cursor.close failed")
    /\ result' = NoResult
    /\ pc' = "x_exit"
    /\ UNCHANGED <<entry, facade, arg, query, connection, cursor, description,
                   rowcount, rows, valid, retval>>

\* line 297 with a connection.close() that raises
ConnectionCloseRaises ==
    /\ pc = "x_close_conn"
    /\ connection = "open"
    /\ trace' = Append(trace, Event("conn_close", FALSE, <<>>))
    /\ exc' = OtherError("connection.close failed")
    /\ result' = NoResult
    /\ pc' = "x_exit"
    /\ UNCHANGED <<entry, facade, arg, query, connection, cursor, description,
                   rowcount, rows, valid, retval>>

\* execute_query returns its envelope or lets the exception in flight out;
\* the facade returns the envelope unchanged (lines 326-328)
ExecExit ==
    /\ pc = "x_exit"
    /\ IF entry = "executor"
       THEN /\ pc' = "returned"
            /\ retval' = IF exc # NoExc THEN [tag |-> "raised", val |-> exc]
                         ELSE [tag |-> "envelope", val |-> result]
            /\ UNCHANGED result
       ELSE IF exc # NoExc
            THEN pc' = "f_except" /\ UNCHANGED <<result, retval>>
            ELSE FacadeReturn(entry, result)
    /\ UNCHANGED <<entry, facade, arg, query, connection, cursor, exc,
                   description, rowcount, rows, valid, trace>>

\* the caller has its answer; the next call finds the tool as the first did
Finish ==
    /\ pc = "returned"
    /\ pc' = "idle"
    /\ FreshCall("none")
    /\ facade' = NoLocals
    /\ arg' = NoLocals
    /\ query' = <<>>
    /\ exc' = NoExc
    /\ valid' = "unset"
    /\ retval' = Pending
    /\ trace' = <<>>

Next ==
    \/ Finish
    \/ CallValidator
    \/ CallFacade
    \/ CallTool
    \/ CallExecutor
    \/ FacadeValidate
    \/ FacadeExcept
    \/ ToolReturn
    \/ ExecConnect
    \/ ExecCursor
    \/ ExecSetTimeout
    \/ ExecInjectLimit
    \/ ExecStatement
    \/ ExecFetch
    \/ ExecCommit
    \/ ExecHandle
    \/ ExecCloseCursor
    \/ ExecCloseConnection
    \/ ExecExit

\* The program with psycopg2 as it is used here: close() of a client-side
\* cursor and of a connection does not raise.
Spec == Init /\ [][Next]_vars

\* The same program with a driver whose close() calls may raise as well.
NextRelease ==
    \/ Next
    \/ CursorCloseRaises
    \/ ConnectionCloseRaises

SpecRelease == Init /\ [][NextRelease]_vars

\* =================================================================== claims
\* positions in the history of the calls named op
Ops(op) == {i \in DOMAIN trace : trace[i].op = op}
Called(op) == Ops(op) # {}
Succeeded(op) == \E i \in Ops(op) : trace[i].ok
Failed(op) == \E i \in Ops(op) : ~trace[i].ok

\* execute_query was entered and its finally block is behind it
ExecutorExited ==
    Called("connect") /\ pc \in {"x_exit", "f_except", "t_return", "returned"}
\* execute_query is handing its outcome to its caller
AtExecutorExit == pc = "x_exit"
\* execute_query is returning a failure envelope (not raising)
ReturnsFailureEnvelope ==
    /\ exc = NoExc
    /\ "success" \in DOMAIN result
    /\ ~result.success
    /\ "error" \in DOMAIN result
FacadeDone == entry \in {"facade", "tool"} /\ pc \in {"t_return", "returned"}

\* C1: once execute_query has exited, on every exit path (success,
\* connection failure, backend error at the timeout directive or at the
\* statement, unexpected error, a rollback that itself raises) the cursor
\* it created and the connection it acquired are closed; a call makes at
\* most one connection and runs at most one caller statement on it.
C1_ReleasedOnEveryExit ==
    /\ Cardinality(Ops("connect")) <= 1
    /\ Cardinality(Ops("execute")) <= 1
    /\ ExecutorExited =>
        /\ connection # "open"
        /\ cursor # "open"
        /\ Succeeded("connect") => connection = "closed" /\ Succeeded("conn_close")
        /\ Succeeded("cursor") => cursor = "closed" /\ Succeeded("cursor_close")

\* execute_query leaves with the exception of a failed rollback, and both
\* the cursor and the connection have been closed
C1_Witness ==
    /\ AtExecutorExit
    /\ Failed("execute")
    /\ Failed("rollback")
    /\ exc = DbError("rollback failed", "None")
    /\ cursor = "closed"
    /\ connection = "closed"

\* C2: the facade never lets an exception reach its caller: it always hands
\* back an envelope, and whenever anything below it failed (malformed
\* input, connection, statement, fetch, commit, rollback, release of the
\* cursor or of the connection) the envelope has success = false and an
\* error message.
C2_FacadeNeverRaises ==
    entry \in {"facade", "tool"} =>
        /\ retval.tag # "raised"
        /\ pc = "returned" /\ entry = "facade" =>
            retval.tag = "envelope" /\ retval.val = result
        /\ FacadeDone => "success" \in DOMAIN result
        /\ FacadeDone /\ ((\E i \in DOMAIN trace : ~trace[i].ok) \/ facade = NoLocals) =>
            ~result.success /\ "error" \in DOMAIN result

\* the facade answers with a failure envelope after a rollback that raised
C2_Witness ==
    /\ entry = "facade"
    /\ pc = "returned"
    /\ Failed("rollback")
    /\ retval.tag = "envelope"
    /\ retval.val = ToolFailed(DbError("rollback failed", "None"))

\* C3: in a facade call the validator runs only on a non-empty trimmed
\* query and a connection is attempted only after the validator returned
\* true; an empty query is answered with the missing-query envelope with
\* neither validator nor driver called, a rejected query with the
\* validation-failure envelope and no connection attempt.
C3_StagesGuarded ==
    entry \in {"facade", "tool"} =>
        /\ Called("validate") => facade # NoLocals /\ facade.query # <<>>
        /\ \A i \in Ops("connect") :
            valid = "True" /\ \E j \in Ops("validate") : j < i
        /\ FacadeDone /\ facade # NoLocals /\ facade.query = <<>> =>
            trace = <<>> /\ result = MissingQuery
        /\ FacadeDone /\ valid = "False" =>
            ~Called("connect") /\ result = ValidationFailed

\* "DROP SCHEMA s" declared as SELECT is rejected without a connection
C3_Witness ==
    /\ entry = "facade"
    /\ pc = "returned"
    /\ facade.query = kDROP_SCHEMA \o <<" ", "s">>
    /\ facade.query_type = kSELECT
    /\ valid = "False"
    /\ retval.val = ValidationFailed
    /\ ~Called("connect")

\* C4: _validate_query returns false when the uppercased statement holds
\* one of DROP DATABASE, DROP SCHEMA, TRUNCATE, DELETE FROM and the
\* declared type is none of DELETE, DROP, ALTER; false when the declared
\* type is SELECT and the uppercased, trimmed statement does not start
\* with SELECT; and true for every other statement that parses.
C4_ValidatorRules ==
    valid # "unset" =>
        LET q == facade.query
            t == facade.query_type
            parsed == trace[CHOOSE i \in Ops("validate") : TRUE].arg
            denied ==
                /\ \E kw \in {kDROP_DATABASE, kDROP_SCHEMA, kTRUNCATE, kDELETE_FROM} :
                    Contains(Upper(q), kw)
                /\ t \notin {kDELETE, kDROP, kALTER}
            mismatch == t = kSELECT /\ ~StartsWith(Strip(Upper(q)), kSELECT)
        IN  /\ denied => valid = "False"
            /\ mismatch => valid = "False"
            /\ ~denied /\ ~mismatch /\ parsed = "statements" => valid = "True"

\* a statement containing DELETE FROM, declared DELETE, passes
C4_Witness ==
    /\ entry = "validator"
    /\ pc = "returned"
    /\ Contains(Upper(facade.query), kDELETE_FROM)
    /\ facade.query_type = kDELETE
    /\ valid = "True"

\* C5: for a SELECT statement without LIMIT the text sent to the database
\* is the original with its trailing ';' terminators removed followed by
\* " LIMIT <limit>"; for a SELECT statement that contains LIMIT it is the
\* original; a success envelope reports the text that was sent.
C5_LimitInjection ==
    \A i \in Ops("execute") :
        LET sent == trace[i].arg
            orig == arg.query
            isSelect == StartsWith(Strip(Upper(orig)), kSELECT)
            hasLimit == Contains(Upper(orig), kLIMIT)
        IN  /\ isSelect /\ ~hasLimit =>
                \E k \in 0..Len(orig) :
                    LET kept == SubSeq(orig, 1, Len(orig) - k)
                    IN  /\ \A j \in (Len(orig) - k + 1)..Len(orig) : orig[j] = ";"
                        /\ kept = <<>> \/ kept[Len(kept)] # ";"
                        /\ sent = kept \o <<" ","L","I","M","I","T"," ">>
                                       \o Decimal(arg.limit)
            /\ isSelect /\ hasLimit => sent = orig
            /\ "success" \in DOMAIN result /\ result.success => result.query = sent

\* "SELECT 1;" with limit 5 was sent as "SELECT 1 LIMIT 5"
C5_Witness ==
    /\ arg # NoLocals
    /\ arg.query = kSELECT \o <<" ", "1", ";">>
    /\ arg.limit = 5
    /\ \E i \in Ops("execute") :
        /\ trace[i].ok
        /\ trace[i].arg = kSELECT \o <<" ","1"," ","L","I","M","I","T"," ","5">>

\* C6: a success envelope of a SELECT-shaped statement has row_count equal
\* to the number of fetched rows and columns equal to the column names of
\* the cursor's description, in order (empty only when there is no
\* description), also when no row was fetched.
C6_ReadResultShape ==
    "data" \in DOMAIN result =>
        /\ result.row_count = Len(rows)
        /\ result.columns = IF description.has THEN description.names ELSE <<>>
        /\ Len(rows) = 0 => result.data = <<>>

\* C7: for a non-SELECT-shaped statement commit is called exactly when the
\* statement ran without error and a write envelope reports the backend's
\* row count; when the statement raised, commit is never called, rollback
\* is called before the connection is closed and execute_query returns a
\* failure envelope.
C7_CommitOrRollback ==
    AtExecutorExit /\ Called("execute") /\ ~IsSelectShaped(query) =>
        /\ Called("commit") <=> Succeeded("execute")
        /\ "affected_rows" \in DOMAIN result =>
            Succeeded("commit") /\ result.affected_rows = rowcount
        /\ Failed("execute") =>
            /\ ~Called("commit")
            /\ \E r \in Ops("rollback") : \A c \in Ops("conn_close") : r < c
            /\ ReturnsFailureEnvelope

\* C8: every failure envelope execute_query returns carries the statement
\* exactly as the caller passed it, with an error message.
C8_FailureCarriesOriginal ==
    AtExecutorExit /\ "success" \in DOMAIN result /\ ~result.success =>
        /\ "error" \in DOMAIN result
        /\ "query" \in DOMAIN result
        /\ result.query = arg.query

\* C9: the caller's statement is sent only after SET statement_timeout =
\* timeout * 1000 succeeded on the connection; when the directive fails the
\* statement is never sent and execute_query returns a failure envelope.
C9_TimeoutBeforeStatement ==
    /\ \A i \in Ops("execute") :
        \E j \in Ops("set_timeout") :
            j < i /\ trace[j].ok /\ trace[j].arg = arg.timeout * 1000
    /\ Failed("set_timeout") => ~Called("execute")
    /\ AtExecutorExit /\ Failed("set_timeout") => ReturnsFailureEnvelope

====
